---- MODULE Spec2Model ----
(***************************************************************************)
(* A model of portopt: the market simulator, the allocation strategies,    *)
(* the trader and the Monte Carlo simulator, each with its online (step)   *)
(* and its batch (sample_path / compute_path) mode.                        *)
(*                                                                         *)
(* Numbers.  A float is modelled by the real number it stands for:         *)
(*   - a rational <<n, d>> in lowest terms with d > 0, or one of the       *)
(*     IEEE specials <<1, 0>> (+inf), <<-1, 0>> (-inf), <<0, 0>> (nan);    *)
(*   - the money-market price, which the batch mode computes with np.exp,  *)
(*     is [c |-> rational, e |-> rational], standing for c * exp(e).       *)
(*     exp(e) is irrational for every rational e # 0, so c1*exp(e1) and    *)
(*     c2*exp(e2) are equal exactly when c1 = c2 and e1 = e2.              *)
(* Rounding is not modelled: equality here is equality of the real numbers *)
(* the floats approximate.  Zero is unsigned (the divisors that are zero   *)
(* in the model are all +0.0).                                             *)
(***************************************************************************)
EXTENDS Integers, Sequences, FiniteSets, TLC

\* ------------------------------------------------------------------ bounds

\* The longest price path, in ticks after tick 0.
MaxTicks == 2

\* The most rows of an ExpandArray used on its own, and the most
\* append_col calls made on it.
MaxRows == 2

MaxAppends == 2

\* ------------------------------------------------------- float arithmetic

Abs(x) == IF x < 0 THEN -x ELSE x

Sgn(x) == IF x < 0 THEN -1 ELSE IF x > 0 THEN 1 ELSE 0

RECURSIVE GCD(_, _)
GCD(a, b) == IF b = 0 THEN a ELSE GCD(b, a % b)

\* n/d as a float value; d = 0 gives the special of n's sign.
Rat(n, d) ==
    IF d = 0 THEN <<Sgn(n), 0>>
    ELSE LET g == GCD(Abs(n), Abs(d))
             s == IF d < 0 THEN -1 ELSE 1
         IN  <<(s * n) \div g, Abs(d) \div g>>

Zero == <<0, 1>>

One == <<1, 1>>

NaN == <<0, 0>>

PInf == <<1, 0>>

IsNaN(a) == a = NaN

IsFinite(a) == a[2] # 0

\* a + b; inf + (-inf) and anything with nan are nan.
Add(a, b) ==
    IF a[2] = 0 \/ b[2] = 0
    THEN IF IsNaN(a) \/ IsNaN(b) THEN NaN
         ELSE IF a[2] = 0 /\ b[2] = 0 THEN (IF a = b THEN a ELSE NaN)
         ELSE IF a[2] = 0 THEN a ELSE b
    ELSE Rat(a[1] * b[2] + b[1] * a[2], a[2] * b[2])

Neg(a) == <<-a[1], a[2]>>

Sub(a, b) == Add(a, Neg(b))

\* a * b; inf * 0 and anything with nan are nan.
Mul(a, b) ==
    IF a[2] = 0 \/ b[2] = 0 THEN <<Sgn(a[1]) * Sgn(b[1]), 0>>
    ELSE Rat(a[1] * b[1], a[2] * b[2])

\* 1 / a with numpy's semantics: 1/0 is inf, 1/inf is 0.
Recip(a) ==
    IF IsNaN(a) THEN NaN
    ELSE IF a[2] = 0 THEN Zero
    ELSE Rat(a[2], a[1])

\* a / b with numpy's semantics (a warning, never an exception): x/0 is
\* inf of x's sign, 0/0 and inf/inf are nan.
Div(a, b) == Mul(a, Recip(b))

\* The comparisons are false whenever an operand is nan.
Lt(a, b) ==
    /\ ~IsNaN(a)
    /\ ~IsNaN(b)
    /\ IF a[2] = 0 /\ b[2] = 0 THEN a[1] < b[1]
       ELSE a[1] * b[2] < b[1] * a[2]

Geq(a, b) ==
    /\ ~IsNaN(a)
    /\ ~IsNaN(b)
    /\ IF a[2] = 0 /\ b[2] = 0 THEN a[1] >= b[1]
       ELSE a[1] * b[2] >= b[1] * a[2]

Gt(a, b) == Lt(b, a)

Leq(a, b) == Geq(b, a)

\* Float equality: nan equals nothing, itself included.
Eq(a, b) == ~IsNaN(a) /\ ~IsNaN(b) /\ a = b

\* np.sqrt of a rational whose numerator and denominator are squares.
ISqrt(n) == CHOOSE k \in 0..n : k * k = n

Sqrt(a) == Rat(ISqrt(a[1]), ISqrt(a[2]))

\* int(x): truncation towards zero of a finite rational.
Trunc(a) ==
    IF a[1] >= 0 THEN a[1] \div a[2] ELSE -((-a[1]) \div a[2])

\* ---------------------------------------------- values of the form c*exp(e)

\* Normal form: the exponent of 0, of inf and of nan is 0.
ENorm(c, e) ==
    IF c[2] = 0 \/ c[1] = 0 THEN [c |-> c, e |-> Zero] ELSE [c |-> c, e |-> e]

\* A rational as a c*exp(e) value.
EPlain(q) == [c |-> q, e |-> Zero]

\* np.exp(x) for a finite x.
Exp(x) == [c |-> One, e |-> x]

EMul(x, y) == ENorm(Mul(x.c, y.c), Add(x.e, y.e))

\* x * q for a rational q.
EMulR(x, q) == ENorm(Mul(x.c, q), x.e)

\* q / x for a rational q.
RDivE(q, x) == ENorm(Div(q, x.c), Neg(x.e))

EEq(x, y) == Eq(x.c, y.c) /\ x.e = y.e

\* x = q for a rational q: an exponent other than 0 makes x irrational.
EEqR(x, q) == Eq(x.c, q) /\ x.e = Zero

RECURSIVE Pow(_, _)
Pow(a, k) == IF k = 0 THEN One ELSE Mul(a, Pow(a, k - 1))

RECURSIVE Fact(_)
Fact(k) == IF k = 0 THEN 1 ELSE k * Fact(k - 1)

\* The Taylor polynomial of exp of degree n at x.
RECURSIVE Taylor(_, _)
Taylor(x, n) ==
    IF n = 0 THEN One
    ELSE Add(Taylor(x, n - 1), Div(Pow(x, n), Rat(Fact(n), 1)))

\* exp(x) < t for rationals 0 < x <= 2 and t > 0.  Taylor(x, n) < exp(x) <
\* Taylor(x, n) + 2 x^(n+1)/(n+1)!  for n >= 2; exp(x) is irrational, so
\* some n decides.
RECURSIVE ExpLtPos(_, _, _)
ExpLtPos(x, t, n) ==
    LET lo == Taylor(x, n)
        hi == Add(lo, Div(Mul(Rat(2, 1), Pow(x, n + 1)), Rat(Fact(n + 1), 1)))
    IN  IF Geq(t, hi) THEN TRUE
        ELSE IF Leq(t, lo) THEN FALSE
        ELSE ExpLtPos(x, t, n + 1)

\* exp(x) < t for a finite rational x # 0 and a float t.
ExpLt(x, t) ==
    IF IsNaN(t) THEN FALSE
    ELSE IF t[2] = 0 THEN t = PInf
    ELSE IF t[1] <= 0 THEN FALSE
    ELSE IF x[1] > 0 THEN ExpLtPos(x, t, 2)
    ELSE ~ExpLtPos(Neg(x), Recip(t), 2)

\* q > c*exp(e) for a float q.
RGtE(q, x) ==
    IF x.e = Zero THEN Gt(q, x.c)
    ELSE IF IsNaN(q) THEN FALSE
    ELSE IF x.c[1] > 0 THEN ExpLt(x.e, Div(q, x.c))
    ELSE ~ExpLt(x.e, Div(q, x.c))

\* q >= c*exp(e): with e # 0 the two are never equal.
RGeqE(q, x) == IF x.e = Zero THEN Geq(q, x.c) ELSE RGtE(q, x)


\* ------------------------------------------------------------ sequences

\* F(v) with v evaluated once, as a Python local variable is.
Let(v, F(_)) == CHOOSE r \in {F(x) : x \in {v}} : TRUE

\* np.cumprod
RECURSIVE CumProd(_)
CumProd(s) ==
    IF Len(s) = 0 THEN <<>>
    ELSE Let(CumProd(SubSeq(s, 1, Len(s) - 1)),
             LAMBDA p : Append(p, IF Len(p) = 0 THEN s[1]
                                  ELSE Mul(p[Len(p)], s[Len(s)])))

\* np.cumsum
RECURSIVE CumSum(_)
CumSum(s) ==
    IF Len(s) = 0 THEN <<>>
    ELSE Let(CumSum(SubSeq(s, 1, Len(s) - 1)),
             LAMBDA p : Append(p, IF Len(p) = 0 THEN s[1]
                                  ELSE Add(p[Len(p)], s[Len(s)])))

\* A sequence of n copies of v (np.ones(n) * v).
Fill(n, v) == [k \in 1..n |-> v]

\* s[1:]
Tail1(s) == SubSeq(s, 2, Len(s))

\* s[:-1]
Front(s) == SubSeq(s, 1, Len(s) - 1)

\* ------------------------------------------------------------ ExpandArray

\* ExpandArray.__init__
ExpandArray(num_rows) ==
    [num_rows |-> num_rows, is_empty |-> TRUE, data |-> [i \in 1..num_rows |-> <<>>]]

\* ExpandArray.append_col: the assertion on the column's length.
append_col_ok(arr, col) == Len(col) = arr.num_rows

\* A variant of ExpandArray.append_col that appends to the first row only.
append_col_first_row(arr, col) ==
    [arr EXCEPT !.data = [i \in 1..arr.num_rows |->
                             IF i = 1 THEN Append(arr.data[i], col[i]) ELSE arr.data[i]],
                !.is_empty = FALSE]

\* ExpandArray.append_col, the assertion passed.
append_col(arr, col) ==
    [arr EXCEPT !.data = [i \in 1..arr.num_rows |-> Append(arr.data[i], col[i])],
                !.is_empty = FALSE]

\* ExpandArray.last_col: the last element of a one-row array, else the list
\* of the rows' last elements.
last_col(arr) ==
    IF arr.num_rows = 1 THEN arr.data[1][Len(arr.data[1])]
    ELSE [i \in 1..arr.num_rows |-> arr.data[i][Len(arr.data[i])]]

\* The exception ExpandArray.last_col raises: the [-1] of an empty row is
\* an IndexError; an array without rows has no row to index.
last_col_raises(arr) ==
    IF arr.num_rows >= 1 /\ Len(arr.data[1]) = 0 THEN "IndexError" ELSE "none"

\* ExpandArray.as_array: the row of a one-row array, else the rows.
as_array(arr) == IF arr.num_rows = 1 THEN arr.data[1] ELSE arr.data

\* The number of columns of a non-degenerate array.
NumCols(arr) == Len(arr.data[1])

\* ------------------------------------------------------- the inputs drawn

\* The time step: 1/4 of a year, whose square root is a rational.
Dts == {Rat(1, 4)}

\* The stock's mean rates of return.
StockMeans == {Zero, One}

\* The stock's volatilities; 0 is the degenerate market.
StockVolatilities == {Zero, One}

\* The interest rates.
InterestRates == {Zero, One}

\* The standard-normal innovations np.random.randn may return.
Innovations == {Neg(One), One}

\* The strategies.  stock_frac is the strategist's attribute of that name;
\* R is used by the CRRA oracle alone.
ConstantStrategy(stock_frac) ==
    [kind |-> "Constant", stock_frac |-> stock_frac, R |-> Zero]

MaxWealthStrategy == [kind |-> "MaxWealth", stock_frac |-> One, R |-> Zero]

ConstantCRRAOracleStrategy(R) == [kind |-> "CRRAOracle", stock_frac |-> One, R |-> R]

Strategies ==
    {ConstantStrategy(f) : f \in {Zero, Rat(1, 2), One, Rat(2, 1)}}
        \cup {MaxWealthStrategy}
        \cup {ConstantCRRAOracleStrategy(R) : R \in {One, Rat(2, 1)}}


\* ------------------------------------------------------ ConstantMarketModel

\* ConstantMarketModel.step: (stock_mean, stock_volatility, ir).
model_step(m) == <<m.stock_mean, m.stock_volatility, m.ir>>

\* A variant of num_points that counts a point per tick of the horizon:
\* int(T_horizon / dt).
num_points_per_tick(dt, T_horizon) == Trunc(Div(T_horizon, dt))

\* The num_points of both sample_path methods: int(T_horizon / dt) - 1.
num_points_of(dt, T_horizon) == Trunc(Div(T_horizon, dt)) - 1

\* ConstantMarketModel.sample_path: np.ones refuses a negative dimension
\* (ValueError); else a 3 by num_points array of the three parameters.
model_sample_path(m, T_horizon) ==
    LET num_points == num_points_of(m.dt, T_horizon)
    IN  IF num_points < 0 THEN [error |-> "ValueError", params |-> <<>>]
        ELSE [error |-> "none",
              params |-> <<Fill(num_points, m.stock_mean),
                           Fill(num_points, m.stock_volatility),
                           Fill(num_points, m.ir)>>]

\* ---------------------------------------------------------- MarketSimulator

\* A variant of MarketSimulator.step's new column that leaves the money
\* market price as it is.
market_step_col_flat_money(m, prices, z) ==
    LET money_market_price == last_col(prices)[1]
        stock_price == last_col(prices)[2]
        stock_mean == model_step(m)[1]
        stock_volatility == model_step(m)[2]
        delta_stock == Mul(stock_price,
                           Add(Mul(stock_mean, m.dt),
                               Mul(Mul(stock_volatility, Sqrt(m.dt)), z)))
    IN  <<money_market_price, Add(stock_price, delta_stock)>>

\* MarketSimulator.step's new column [money market price, stock price] for
\* the innovation z.
market_step_col(m, prices, z) ==
    LET money_market_price == last_col(prices)[1]
        stock_price == last_col(prices)[2]
        stock_mean == model_step(m)[1]
        stock_volatility == model_step(m)[2]
        ir == model_step(m)[3]
        delta_stock == Mul(stock_price,
                           Add(Mul(stock_mean, m.dt),
                               Mul(Mul(stock_volatility, Sqrt(m.dt)), z)))
        new_stock_price == Add(stock_price, delta_stock)
        new_money_market_price == EMulR(money_market_price, Add(One, Mul(ir, m.dt)))
    IN  <<new_money_market_price, new_stock_price>>

\* The stock multipliers of sample_path.
stock_multipliers_of(stock_means, stock_volatilities, dt, zs) ==
    [k \in 1..Len(stock_means) |->
        Add(Add(One, Mul(stock_means[k], dt)),
            Mul(Mul(stock_volatilities[k], Sqrt(dt)), zs[k]))]

\* np.exp(dt * sums) elementwise.
exp_all(dt, sums) == [k \in 1..Len(sums) |-> Exp(Mul(dt, sums[k]))]

\* sample_path's result from the parameter paths: the stock by a
\* cumulative product, the money market by exp of a cumulative sum.
path_of_params(stock_means, stock_volatilities, irs, dt, zs) ==
    [error |-> "none",
     information |->
         << <<EPlain(One)>> \o exp_all(dt, CumSum(irs)),
            <<One>> \o CumProd(stock_multipliers_of(stock_means,
                                                    stock_volatilities, dt, zs)),
            <<irs[1]>> \o irs >>,
     secret_information |-> <<stock_means, stock_volatilities>>]

\* The exception sample_path raises, given what market_model.sample_path
\* returned: the model's own, or the IndexError of irs[0] on an empty irs.
sample_path_raises(mp) ==
    IF mp.error # "none" THEN mp.error
    ELSE IF Len(mp.params[3]) = 0 THEN "IndexError"
    ELSE "none"

\* The result of a sample_path call, given what market_model.sample_path
\* returned.
path_of_model(mp, dt, zs) ==
    IF sample_path_raises(mp) # "none"
    THEN [error |-> sample_path_raises(mp), information |-> <<>>,
          secret_information |-> <<>>]
    ELSE path_of_params(mp.params[1], mp.params[2], mp.params[3], dt, zs)

\* The exception MarketSimulator.sample_path(T_horizon) raises, which the
\* horizon alone decides.
model_sample_error(m, T_horizon) == sample_path_raises(model_sample_path(m, T_horizon))

\* MarketSimulator.sample_path(T_horizon) with the innovations zs (the
\* value of np.random.randn(num_points)).
market_sample_path(m, T_horizon, zs) ==
    Let(model_sample_path(m, T_horizon), LAMBDA mp : path_of_model(mp, m.dt, zs))

\* ---------------------------------------------------------------- strategies

\* reset of the three strategists: the initial fraction; MaxWealth and the
\* oracle set stock_frac to 1.0.
strategy_reset(s) ==
    IF s.kind = "Constant" THEN s ELSE [s EXCEPT !.stock_frac = One]

\* ConstantStrategy.step
constant_step(s, information) == s.stock_frac

\* MaxWealthStrategy.step: 1.0 if the stock price is above the money market
\* price, else 0.0.
maxwealth_step(information) ==
    IF RGtE(information[2], information[1]) THEN One ELSE Zero

\* ConstantCRRAOracleStrategy.step divides Python floats: a zero divisor
\* raises ZeroDivisionError.
crra_step_raises(s, information, secret_information) ==
    \/ secret_information[2] = Zero
    \/ Mul(s.R, secret_information[2]) = Zero

\* ConstantCRRAOracleStrategy.step, no exception raised.
crra_step(s, information, secret_information) ==
    LET interest_rate == information[3]
        mean_rate == secret_information[1]
        volatility == secret_information[2]
        mpr == Div(Sub(mean_rate, interest_rate), volatility)
    IN  Div(mpr, Mul(s.R, volatility))

\* A variant of strategist.step in which MaxWealth peeks at the secret
\* information: all in the stock when its mean rate is above the interest
\* rate.
strategy_step_peeking(s, information, secret_information) ==
    IF s.kind = "Constant"
    THEN [error |-> "none", strategist |-> s]
    ELSE IF s.kind = "MaxWealth"
    THEN [error |-> "none",
          strategist |-> [s EXCEPT !.stock_frac =
                              IF Gt(secret_information[1], information[3])
                              THEN One ELSE Zero]]
    ELSE IF crra_step_raises(s, information, secret_information)
    THEN [error |-> "ZeroDivisionError", strategist |-> s]
    ELSE [error |-> "none",
          strategist |-> [s EXCEPT !.stock_frac =
                              crra_step(s, information, secret_information)]]

\* strategist.step(information, secret_information): the exception raised
\* and the strategist after the call, whose stock_frac is the fraction
\* returned (the constant strategy has no state to update).
strategy_step(s, information, secret_information) ==
    IF s.kind = "Constant"
    THEN [error |-> "none", strategist |-> s]
    ELSE IF s.kind = "MaxWealth"
    THEN [error |-> "none",
          strategist |-> [s EXCEPT !.stock_frac = maxwealth_step(information)]]
    ELSE IF crra_step_raises(s, information, secret_information)
    THEN [error |-> "ZeroDivisionError", strategist |-> s]
    ELSE [error |-> "none",
          strategist |-> [s EXCEPT !.stock_frac =
                              crra_step(s, information, secret_information)]]

\* The fraction strategist.step returns.
step_fraction(s, information, secret_information) ==
    IF s.kind = "Constant" THEN constant_step(s, information)
    ELSE strategy_step(s, information, secret_information).strategist.stock_frac

\* ConstantStrategy.compute_path: information.shape[1] copies of stock_frac.
constant_compute_path(s, information) == Fill(Len(information[1]), s.stock_frac)

\* MaxWealthStrategy.compute_path: 1.0, then for every tick but the last
\* whether the stock price is at least the money market price.
maxwealth_compute_path(information) ==
    LET money == Front(information[1])
        stock == Front(information[2])
    IN  <<One>> \o [k \in 1..Len(stock) |->
                       IF RGeqE(stock[k], money[k]) THEN One ELSE Zero]

\* ConstantCRRAOracleStrategy.compute_path: numpy arrays, so a zero
\* divisor gives inf or nan and no exception.
crra_compute_path(s, information, secret_information) ==
    LET irs == Tail1(information[3])
        mprs == [k \in 1..Len(irs) |->
                    Div(Sub(secret_information[1][k], irs[k]), secret_information[2][k])]
    IN  <<One>> \o [k \in 1..Len(irs) |->
                       Div(mprs[k], Mul(secret_information[2][k], s.R))]

\* strategist.compute_path(information, secret_information)
strategy_compute_path(s, information, secret_information) ==
    IF s.kind = "Constant" THEN constant_compute_path(s, information)
    ELSE IF s.kind = "MaxWealth" THEN maxwealth_compute_path(information)
    ELSE crra_compute_path(s, information, secret_information)


\* -------------------------------------------------------------------- Trader

\* Trader.frac2position against a stock price:
\* fraction * portfolio_val.last_col() / stock_price.
frac2position(portfolio_val, fraction, stock_price) ==
    Div(Mul(fraction, last_col(portfolio_val)), stock_price)

\* Trader.frac2position against a money market price.
frac2position_money(portfolio_val, fraction, money_market_price) ==
    RDivE(Mul(fraction, last_col(portfolio_val)), money_market_price)

\* Trader.reset (and __init__): one dollar, the positions of the
\* strategist's initial fraction at the prices 1 and 1.
trader_reset(strategist) ==
    LET st == strategy_reset(strategist)
        portfolio_val == append_col(ExpandArray(1), <<One>>)
        init_stock_fraction == st.stock_frac
        init_stock_position == frac2position(portfolio_val, init_stock_fraction, One)
        init_money_market_position ==
            frac2position_money(portfolio_val, Sub(One, init_stock_fraction), EPlain(One))
    IN  [strategist |-> st,
         last_stock_price |-> One,
         positions |-> append_col(ExpandArray(2),
                                  <<init_money_market_position, init_stock_position>>),
         portfolio_val |-> portfolio_val,
         error |-> "none"]

\* A variant of Trader.step's new portfolio value that pays interest on the
\* whole portfolio value, the part held in stock included.
new_port_val_interest_on_all(t, dt, information) ==
    LET stock_price == information[2]
        ir == information[3]
        stock_pos == last_col(t.positions)[2]
        port_val == last_col(t.portfolio_val)
        delta_port_val ==
            Add(Mul(stock_pos, Sub(stock_price, t.last_stock_price)),
                Mul(Mul(ir, port_val), dt))
    IN  Add(port_val, delta_port_val)

\* Trader.step's new portfolio value.
new_port_val_of(t, dt, information) ==
    LET stock_price == information[2]
        ir == information[3]
        stock_pos == last_col(t.positions)[2]
        port_val == last_col(t.portfolio_val)
        delta_port_val ==
            Add(Mul(stock_pos, Sub(stock_price, t.last_stock_price)),
                Mul(Mul(ir, Sub(port_val, Mul(stock_pos, t.last_stock_price))), dt))
    IN  Add(port_val, delta_port_val)

\* Trader.step(information, secret_information): the trader after the
\* call.  The portfolio value is appended before the strategist is asked;
\* an exception of the strategist leaves the rest as it was.
trader_step(t, dt, information, secret_information) ==
    LET money_market_price == information[1]
        stock_price == information[2]
        portfolio_val == append_col(t.portfolio_val,
                                    <<new_port_val_of(t, dt, information)>>)
        res == strategy_step(t.strategist, information, secret_information)
        stock_fraction == step_fraction(t.strategist, information, secret_information)
        stock_position == frac2position(portfolio_val, stock_fraction, stock_price)
        money_market_position ==
            frac2position_money(portfolio_val, Sub(One, stock_fraction), money_market_price)
    IN  IF res.error # "none"
        THEN [t EXCEPT !.portfolio_val = portfolio_val, !.error = res.error]
        ELSE [strategist |-> res.strategist,
              last_stock_price |-> stock_price,
              positions |-> append_col(t.positions,
                                       <<money_market_position, stock_position>>),
              portfolio_val |-> portfolio_val,
              error |-> "none"]

\* A variant of the per-tick growth factors that keeps the gains and
\* drops the 1 they are added to.
path_aux_arr_gains_only(fracs, past_stock_prices, current_stock_prices, irs, dt) ==
    [k \in 1..Len(irs) |->
        LET stock_relative_gain ==
                Div(Sub(current_stock_prices[k], past_stock_prices[k]),
                    past_stock_prices[k])
        IN  Add(Mul(fracs[k], stock_relative_gain),
                Mul(Mul(Sub(One, fracs[k]), irs[k]), dt))]

\* The per-tick growth factors of Trader.compute_path.
path_aux_arr(fracs, past_stock_prices, current_stock_prices, irs, dt) ==
    [k \in 1..Len(irs) |->
        LET stock_relative_gain ==
                Div(Sub(current_stock_prices[k], past_stock_prices[k]),
                    past_stock_prices[k])
        IN  Add(Add(One, Mul(fracs[k], stock_relative_gain)),
                Mul(Mul(Sub(One, fracs[k]), irs[k]), dt))]

\* The portfolio values of Trader.compute_path: 1, then the cumulative
\* product of the per-tick growth factors.
path_portfolio_values(stock_fractions, dt, information) ==
    <<One>> \o CumProd(path_aux_arr(Tail1(stock_fractions), Front(information[2]),
                                    Tail1(information[2]), Tail1(information[3]), dt))

\* The positions of Trader.compute_path, back-derived from the fractions,
\* the portfolio values and the prices: money market row, stock row.
path_positions(stock_fractions, portfolio_values, information) ==
    LET stock_positions ==
            [k \in 1..Len(portfolio_values) |->
                Div(Mul(stock_fractions[k], portfolio_values[k]), information[2][k])]
        money_market_positions ==
            [k \in 1..Len(portfolio_values) |->
                RDivE(Mul(Sub(One, stock_fractions[k]), portfolio_values[k]),
                      information[1][k])]
    IN  <<money_market_positions, stock_positions>>

\* Trader.compute_path, given the fractions of strategist.compute_path.
path_of_fractions(stock_fractions, dt, information) ==
    Let(path_portfolio_values(stock_fractions, dt, information),
        LAMBDA portfolio_values :
            [positions |-> path_positions(stock_fractions, portfolio_values, information),
             portfolio_values |-> portfolio_values])

\* Trader.compute_path(information, secret_information): the positions
\* and the portfolio values.  It reads the strategist and dt and writes
\* nothing.
trader_compute_path(strategist, dt, information, secret_information) ==
    Let(strategy_compute_path(strategist, information, secret_information),
        LAMBDA stock_fractions : path_of_fractions(stock_fractions, dt, information))

\* ----------------------------------------------------------------- Simulator

\* Simulator.sample, given the path market.sample_path returned: every
\* trader's compute_path on it, the last portfolio value of each.  An
\* exception of market.sample_path propagates.
sample_of_path(path, dt, strategists) ==
    IF path.error # "none" THEN [error |-> path.error, values |-> <<>>]
    ELSE [error |-> "none",
          values |-> [i \in 1..Len(strategists) |->
                         LET portfolio_values ==
                                 trader_compute_path(strategists[i], dt, path.information,
                                                     path.secret_information).portfolio_values
                         IN  portfolio_values[Len(portfolio_values)]]]

\* A variant of Simulator.sample that draws a path per trader: the first
\* trader's from zs, the others' from the innovations of opposite sign.
simulator_sample_redrawn(m, strategists, T_horizon, zs) ==
    IF model_sample_error(m, T_horizon) # "none"
    THEN [error |-> model_sample_error(m, T_horizon), values |-> <<>>]
    ELSE [error |-> "none",
          values |-> [i \in 1..Len(strategists) |->
                         sample_of_path(
                             market_sample_path(m, T_horizon,
                                 IF i = 1 THEN zs ELSE [k \in 1..Len(zs) |-> Neg(zs[k])]),
                             m.dt, <<strategists[i]>>).values[1]]]

\* Simulator.sample(T_horizon) with the innovations zs.
simulator_sample(m, strategists, T_horizon, zs) ==
    Let(market_sample_path(m, T_horizon, zs),
        LAMBDA path : sample_of_path(path, m.dt, strategists))

\* ------------------------------------------------------------------ the state

VARIABLES
    market_model,            \* the ConstantMarketModel: dt, stock_mean, stock_volatility, ir
    prices,                  \* MarketSimulator.prices
    draws,                   \* the innovations MarketSimulator.step drew since its reset
    traders,                 \* the Trader objects, in the simulator's order
    fed,                     \* per trader: how many columns of the market's path its step got
    batch,                   \* what the last MarketSimulator.sample_path call returned
    path_ret,                \* what the last Trader.compute_path call returned
    final_portfolio_values,  \* Simulator.final_portfolio_values
    sample_ret,              \* what the last Simulator.sample call returned
    report,                  \* what the last Simulator.simulate call reported
    expand_array,                     \* an ExpandArray used on its own
    appended,                \* the columns expand_array's append_col calls accepted, in order
    arr_ret                  \* what the last call on expand_array returned or raised

vars == <<market_model, prices, draws, traders, fed, batch, path_ret,
          final_portfolio_values, sample_ret, report, expand_array, appended, arr_ret>>

\* The horizons asked for: negative, zero, below dt, dt, between dt and
\* 2 dt, and the whole multiples of dt up to MaxTicks + 1.
Horizons(dt) ==
    {Neg(dt), Zero, Mul(Rat(1, 2), dt), dt, Mul(Rat(3, 2), dt)}
        \cup {Mul(Rat(k, 1), dt) : k \in 2..(MaxTicks + 1)}

\* The values np.random.randn(n) may return; nothing is drawn for n <= 0.
ZSeqs(n) == IF n <= 0 THEN {<<>>} ELSE [1..n -> Innovations]

NoCall == [error |-> "no call"]

\* MarketSimulator.reset (and __init__): both prices 1 at tick 0.
market_reset == append_col(ExpandArray(2), <<EPlain(One), One>>)

\* After the constructors of one market, one trader and the simulator of
\* the two: Simulator.__init__ resets the trader and the market and
\* allocates the matrix of final portfolio values.
Init ==
    /\ market_model \in [dt : Dts, stock_mean : StockMeans,
                         stock_volatility : StockVolatilities, ir : InterestRates]
    /\ prices = market_reset
    /\ draws = <<>>
    /\ \E s \in Strategies : traders = <<trader_reset(s)>>
    /\ fed = [i \in DOMAIN traders |-> 0]
    /\ final_portfolio_values = ExpandArray(Len(traders))
    /\ batch = NoCall
    /\ path_ret = NoCall
    /\ sample_ret = NoCall
    /\ report = NoCall
    /\ expand_array = ExpandArray(1)
    /\ appended = <<>>
    /\ arr_ret = NoCall

\* The information and the secret information MarketSimulator.step
\* returned at tick k >= 1 of the current path.
information_at(k) == <<prices.data[1][k + 1], prices.data[2][k + 1], market_model.ir>>

secret_information_at(k) == <<market_model.stock_mean, market_model.stock_volatility>>

\* The market's path up to tick k as compute_path takes it: the prices
\* (get_prices) over the interest rates, and the parameters of ticks 1..k.
online_information(k) ==
    <<SubSeq(prices.data[1], 1, k + 1), SubSeq(prices.data[2], 1, k + 1),
      Fill(k + 1, market_model.ir)>>

online_secret_information(k) ==
    <<Fill(k, market_model.stock_mean), Fill(k, market_model.stock_volatility)>>

\* ------------------------------------------------------------------ actions

\* MarketSimulator.reset, called at the start of a run: before any trader
\* was fed a column of the path it discards.
MarketReset ==
    /\ \A i \in DOMAIN fed : fed[i] = 0
    /\ prices' = market_reset
    /\ draws' = <<>>
    /\ UNCHANGED <<expand_array, appended, arr_ret, market_model, traders, fed, batch, path_ret,
                   final_portfolio_values, sample_ret, report>>

\* MarketSimulator.step, drawing the innovation z.
MarketStep ==
    /\ Len(draws) < MaxTicks
    /\ \E z \in Innovations :
        /\ prices' = append_col(prices, market_step_col(market_model, prices, z))
        /\ draws' = Append(draws, z)
    /\ UNCHANGED <<expand_array, appended, arr_ret, market_model, traders, fed, batch, path_ret,
                   final_portfolio_values, sample_ret, report>>

\* Trader.reset of trader i, which then starts again at tick 0 of the path.
TraderReset ==
    \E i \in DOMAIN traders :
        /\ traders' = [traders EXCEPT ![i] = trader_reset(traders[i].strategist)]
        /\ fed' = [fed EXCEPT ![i] = 0]
        /\ UNCHANGED <<expand_array, appended, arr_ret, market_model, prices, draws, batch, path_ret,
                       final_portfolio_values, sample_ret, report>>

\* Trader.step of trader i with the next column of the market's path.  A
\* trader whose step raised is not stepped again before its reset.
TraderStep ==
    \E i \in DOMAIN traders :
        /\ fed[i] < Len(draws)
        /\ traders[i].error = "none"
        /\ traders' = [traders EXCEPT ![i] =
                          trader_step(traders[i], market_model.dt,
                                      information_at(fed[i] + 1),
                                      secret_information_at(fed[i] + 1))]
        /\ fed' = [fed EXCEPT ![i] = fed[i] + 1]
        /\ UNCHANGED <<expand_array, appended, arr_ret, market_model, prices, draws, batch, path_ret,
                       final_portfolio_values, sample_ret, report>>

\* MarketSimulator.sample_path(T_horizon), drawing the innovations zs.  The
\* caller drops what compute_path returned for the path before.
SamplePath ==
    \E T_horizon \in Horizons(market_model.dt) :
        \E zs \in ZSeqs(num_points_of(market_model.dt, T_horizon)) :
            /\ batch' = LET ret == market_sample_path(market_model, T_horizon, zs)
                        IN  [error |-> ret.error,
                             T_horizon |-> T_horizon,
                             zs |-> zs,
                             information |-> ret.information,
                             secret_information |-> ret.secret_information]
            /\ path_ret' = NoCall
            /\ UNCHANGED <<expand_array, appended, arr_ret, market_model, prices, draws, traders, fed,
                           final_portfolio_values, sample_ret, report>>

\* A variant of Trader.compute_path that leaves the last fraction of the
\* path in the strategist's stock_frac.
ComputePathStoring ==
    \E i \in DOMAIN traders :
        /\ batch.error = "none"
        /\ path_ret' = [error |-> "none",
                        trader |-> i,
                        ret |-> trader_compute_path(traders[i].strategist,
                                                    market_model.dt,
                                                    batch.information,
                                                    batch.secret_information)]
        /\ \E fracs \in {strategy_compute_path(traders[i].strategist, batch.information,
                                               batch.secret_information)} :
               traders' = [traders EXCEPT ![i].strategist.stock_frac = fracs[Len(fracs)]]
        /\ UNCHANGED <<expand_array, appended, arr_ret, market_model, prices, draws, fed,
                       batch, final_portfolio_values, sample_ret, report>>

\* Trader.compute_path of trader i on the path sample_path returned last.
ComputePath ==
    \E i \in DOMAIN traders :
        /\ batch.error = "none"
        /\ path_ret' = [error |-> "none",
                        trader |-> i,
                        ret |-> trader_compute_path(traders[i].strategist,
                                                    market_model.dt,
                                                    batch.information,
                                                    batch.secret_information)]
        /\ UNCHANGED <<expand_array, appended, arr_ret, market_model, prices, draws, traders, fed, batch,
                       final_portfolio_values, sample_ret, report>>

Next ==
    \/ MarketReset
    \/ MarketStep
    \/ TraderReset
    \/ TraderStep
    \/ SamplePath
    \/ ComputePath

Spec == Init /\ [][Next]_vars


\* ------------------------------------------------- the Monte Carlo simulator

\* The most columns the matrix of final portfolio values grows to.
MaxCols == 2

\* The lists of strategies a simulator is built with: the single ones and
\* the pairs of a constant, the MaxWealth and an oracle strategy.
PairStrategies ==
    {ConstantStrategy(One), MaxWealthStrategy, ConstantCRRAOracleStrategy(One)}

StrategyLists ==
    {<<s>> : s \in PairStrategies}
        \cup {p \in PairStrategies \X PairStrategies : p[1] # p[2]}

\* The horizons a simulation is asked for: dt, which sample_path refuses,
\* and 2 dt, the horizon of the paths of one tick after tick 0.
SimHorizons(dt) == {dt, Mul(Rat(2, 1), dt)}

\* After the constructors of one market, a list of traders and their
\* simulator.
InitSim ==
    /\ market_model \in [dt : Dts, stock_mean : StockMeans,
                         stock_volatility : StockVolatilities, ir : InterestRates]
    /\ prices = market_reset
    /\ draws = <<>>
    /\ \E sl \in StrategyLists : traders = [i \in 1..Len(sl) |-> trader_reset(sl[i])]
    /\ fed = [i \in DOMAIN traders |-> 0]
    /\ final_portfolio_values = ExpandArray(Len(traders))
    /\ batch = NoCall
    /\ path_ret = NoCall
    /\ sample_ret = NoCall
    /\ report = NoCall
    /\ expand_array = ExpandArray(1)
    /\ appended = <<>>
    /\ arr_ret = NoCall

strategists_of(ts) == [i \in DOMAIN ts |-> ts[i].strategist]

\* Simulator.reset: every trader and the market reset, a new matrix.
SimulatorReset ==
    /\ traders' = [i \in DOMAIN traders |-> trader_reset(traders[i].strategist)]
    /\ fed' = [i \in DOMAIN traders |-> 0]
    /\ prices' = market_reset
    /\ draws' = <<>>
    /\ final_portfolio_values' = ExpandArray(Len(traders))
    /\ UNCHANGED <<expand_array, appended, arr_ret, market_model, batch, path_ret, sample_ret, report>>

\* Simulator.sample(T_horizon), its market drawing the innovations zs.
SimulatorSample ==
    \E T_horizon \in SimHorizons(market_model.dt) :
        \E zs \in ZSeqs(num_points_of(market_model.dt, T_horizon)) :
            /\ sample_ret' = simulator_sample(market_model, strategists_of(traders),
                                              T_horizon, zs)
            /\ UNCHANGED <<expand_array, appended, arr_ret, market_model, prices, draws, traders, fed, batch, path_ret,
                           final_portfolio_values, report>>

\* The matrix after appending the samples of the innovations zss[1], ...
RECURSIVE append_samples(_, _, _, _, _)
append_samples(arr, m, strategists, T_horizon, zss) ==
    IF Len(zss) = 0 THEN arr
    ELSE append_samples(
             append_col(arr, simulator_sample(m, strategists, T_horizon, zss[1]).values),
             m, strategists, T_horizon, Tail(zss))

\* print_results reads N = portfolio_utilities.shape[1]; as_array gives a
\* one-row matrix as a vector, which has no shape[1] (IndexError).
print_results(arr) ==
    IF arr.num_rows = 1 THEN [error |-> "IndexError", N |-> 0, rows |-> 0]
    ELSE [error |-> "none", N |-> NumCols(arr), rows |-> arr.num_rows]

\* What a simulate(T_horizon, carlo_iterations) call reported: the call's
\* arguments next to print_results' figures or the exception raised.
reported(T_horizon, carlo_iterations, res) ==
    [T_horizon |-> T_horizon, carlo_iterations |-> carlo_iterations,
     error |-> res.error, N |-> res.N, rows |-> res.rows]

\* Simulator.simulate(T_horizon, carlo_iterations): a sample appended per
\* iteration, then the statistics over the whole matrix.  A sample that
\* raises ends the call; the horizon decides whether sample_path raises,
\* so that is the first sample.  sample_ret is the last sample's result.
SimulatorSimulate ==
    /\ UNCHANGED <<expand_array, appended, arr_ret, market_model, prices, draws, traders, fed, batch, path_ret>>
    /\ \E T_horizon \in SimHorizons(market_model.dt) :
        \E carlo_iterations \in 0..(MaxCols - NumCols(final_portfolio_values)) :
            \E zss \in [1..carlo_iterations ->
                            ZSeqs(num_points_of(market_model.dt, T_horizon))] :
                LET raised == model_sample_error(market_model, T_horizon)
                IN  IF carlo_iterations = 0
                    THEN /\ report' = reported(T_horizon, carlo_iterations,
                                              print_results(final_portfolio_values))
                         /\ UNCHANGED <<final_portfolio_values, sample_ret>>
                    ELSE IF raised # "none"
                    THEN /\ report' = reported(T_horizon, carlo_iterations,
                                              [error |-> raised, N |-> 0, rows |-> 0])
                         /\ sample_ret' = [error |-> raised, values |-> <<>>]
                         /\ UNCHANGED final_portfolio_values
                    ELSE \E matrix \in {append_samples(final_portfolio_values,
                                                       market_model,
                                                       strategists_of(traders),
                                                       T_horizon, zss)} :
                            /\ final_portfolio_values' = matrix
                            /\ sample_ret' =
                                   [error |-> "none",
                                    values |-> [i \in 1..Len(traders) |->
                                                   matrix.data[i][NumCols(matrix)]]]
                            /\ report' = reported(T_horizon, carlo_iterations,
                                                  print_results(matrix))

NextSim ==
    \/ SimulatorReset
    \/ SimulatorSample
    \/ SimulatorSimulate

SimSpec == InitSim /\ [][NextSim]_vars


\* ------------------------------------------------- an ExpandArray on its own

\* ExpandArray.append_col(col) as a call: the assertion raises before
\* any row is touched, else every row gets its entry.
append_col_call(arr, col) ==
    IF append_col_ok(arr, col) THEN append_col(arr, col) ELSE arr

\* The columns append_col is called with: every length from 0 to
\* MaxRows + 1, the entries 0 or 1.
Columns == UNION {[1..n -> {Zero, One}] : n \in 0..(MaxRows + 1)}

\* After ExpandArray(num_rows), next to a market and a simulator without
\* traders that no call touches.
InitArray ==
    /\ market_model = [dt |-> Rat(1, 4), stock_mean |-> Zero,
                       stock_volatility |-> Zero, ir |-> Zero]
    /\ prices = market_reset
    /\ draws = <<>>
    /\ traders = <<>>
    /\ fed = <<>>
    /\ final_portfolio_values = ExpandArray(0)
    /\ batch = NoCall
    /\ path_ret = NoCall
    /\ sample_ret = NoCall
    /\ report = NoCall
    /\ \E num_rows \in 0..MaxRows : expand_array = ExpandArray(num_rows)
    /\ appended = <<>>
    /\ arr_ret = NoCall

\* expand_array.append_col(col)
ArrayAppendCol ==
    \E col \in Columns :
        /\ append_col_ok(expand_array, col) => Len(appended) < MaxAppends
        /\ expand_array' = append_col_call(expand_array, col)
        /\ appended' = IF append_col_ok(expand_array, col) THEN Append(appended, col) ELSE appended
        /\ arr_ret' = [op |-> "append_col",
                       error |-> IF append_col_ok(expand_array, col) THEN "none" ELSE "AssertionError",
                       value |-> col]
        /\ UNCHANGED <<market_model, prices, draws, traders, fed, batch, path_ret,
                       final_portfolio_values, sample_ret, report>>

\* expand_array.last_col()
ArrayLastCol ==
    /\ arr_ret' = IF last_col_raises(expand_array) # "none"
                  THEN [op |-> "last_col", error |-> last_col_raises(expand_array), value |-> <<>>]
                  ELSE [op |-> "last_col", error |-> "none", value |-> last_col(expand_array)]
    /\ UNCHANGED <<expand_array, appended, market_model, prices, draws, traders, fed, batch,
                   path_ret, final_portfolio_values, sample_ret, report>>

NextArray ==
    \/ ArrayAppendCol
    \/ ArrayLastCol

ArraySpec == InitArray /\ [][NextArray]_vars

\* ------------------------------------------------------- reading the state

\* Trader.get_portfolio_values and the rows of Trader.get_positions.
wealth_path(i) == traders[i].portfolio_val.data[1]

money_positions(i) == traders[i].positions.data[1]

stock_positions(i) == traders[i].positions.data[2]

\* Elementwise float equality of two paths.
SeqEq(a, b) == Len(a) = Len(b) /\ \A k \in 1..Len(a) : Eq(a[k], b[k])

SeqEEq(a, b) == Len(a) = Len(b) /\ \A k \in 1..Len(a) : EEq(a[k], b[k])

\* wealth == money_market_position * M + stock_position * S.  A product
\* of the form c*exp(e) with e # 0 is irrational and equals no float sum.
SelfFinanced(wealth, money_pos, stock_pos, M, S) ==
    /\ EMul(money_pos, M).e = Zero
    /\ Eq(wealth, Add(EMul(money_pos, M).c, Mul(stock_pos, S)))

\* What Trader.compute_path returns for trader i on the market's own path
\* up to the tick the trader was stepped to.
compute_path_online(i) ==
    trader_compute_path(traders[i].strategist, market_model.dt,
                        online_information(fed[i]), online_secret_information(fed[i]))

\* The fractions strategist.compute_path returns for trader i on the
\* market's own path up to the tick the trader was stepped to.
fractions_online(i) ==
    strategy_compute_path(traders[i].strategist, online_information(fed[i]),
                          online_secret_information(fed[i]))

\* ------------------------------------------------------------------- claims

\* C1: for every strategy and every price path, stepping the trader tick
\* by tick (Trader.step) and one Trader.compute_path call on the same path
\* give the same wealth path and the same position path.
C1_StepEqualsComputePath ==
    \A i \in DOMAIN traders :
        traders[i].error = "none" =>
            /\ SeqEq(wealth_path(i), compute_path_online(i).portfolio_values)
            /\ SeqEEq(money_positions(i), compute_path_online(i).positions[1])
            /\ SeqEq(stock_positions(i), compute_path_online(i).positions[2])

\* C2: with the same innovations, market parameters and dt, the price path
\* of successive MarketSimulator.step calls and the price path of one
\* MarketSimulator.sample_path call are equal, money market and stock.
C2_StepPathEqualsSamplePath ==
    (batch.error = "none" /\ batch.zs = draws) =>
        /\ SeqEEq(prices.data[1], batch.information[1])
        /\ SeqEq(prices.data[2], batch.information[2])

\* C3: strategist.compute_path on a path of K ticks returns K + 1
\* fractions: entry 0 is what reset() returns, entry t what the t-th
\* sequential step returns, the last of which the strategist holds.
C3_FractionPathIsStepSequence ==
    \A i \in DOMAIN traders :
        traders[i].error = "none" =>
            /\ Len(fractions_online(i)) = fed[i] + 1
            /\ Eq(fractions_online(i)[1],
                  strategy_reset(traders[i].strategist).stock_frac)
            /\ \A t \in 1..fed[i] :
                   Eq(fractions_online(i)[t + 1],
                      step_fraction(traders[i].strategist, information_at(t),
                                    secret_information_at(t)))
            /\ Eq(fractions_online(i)[fed[i] + 1], traders[i].strategist.stock_frac)

\* C4: at every tick of every trader's path, online and batch,
\* wealth == money_market_position * M + stock_position * S.
C4_SelfFinancing ==
    /\ \A i \in DOMAIN traders :
           \A k \in 1..Len(stock_positions(i)) :
               SelfFinanced(wealth_path(i)[k], money_positions(i)[k],
                            stock_positions(i)[k],
                            prices.data[1][k], prices.data[2][k])
    /\ path_ret.error = "none" =>
           \A k \in 1..Len(path_ret.ret.portfolio_values) :
               SelfFinanced(path_ret.ret.portfolio_values[k],
                            path_ret.ret.positions[1][k], path_ret.ret.positions[2][k],
                            batch.information[1][k], batch.information[2][k])

\* C5: the wealth path of the constant strategy with stock fraction 0
\* equals the market's money market price path, computed by sample_path
\* and compute_path as well as by the two step methods.
C5_AllCashTracksMoneyMarket ==
    /\ \A i \in DOMAIN traders :
           traders[i].strategist = ConstantStrategy(Zero) =>
               \A k \in 1..Len(wealth_path(i)) :
                   EEqR(prices.data[1][k], wealth_path(i)[k])
    /\ (path_ret.error = "none"
            /\ traders[path_ret.trader].strategist = ConstantStrategy(Zero)) =>
           \A k \in 1..Len(path_ret.ret.portfolio_values) :
               EEqR(batch.information[1][k], path_ret.ret.portfolio_values[k])

\* C6: the wealth path of the constant strategy with stock fraction 1
\* equals the stock price path (both start at 1), online and batch.
C6_AllStockTracksStock ==
    /\ \A i \in DOMAIN traders :
           traders[i].strategist = ConstantStrategy(One) =>
               SeqEq(wealth_path(i), SubSeq(prices.data[2], 1, fed[i] + 1))
    /\ (path_ret.error = "none"
            /\ traders[path_ret.trader].strategist = ConstantStrategy(One)) =>
           SeqEq(path_ret.ret.portfolio_values, batch.information[2])

\* An all-stock trader stepped over two ticks of a moving stock price in a
\* market that pays interest, and its compute_path on a two-tick path.
C6_Witness ==
    /\ traders[1].strategist = ConstantStrategy(One)
    /\ market_model.ir = One
    /\ fed[1] = 2
    /\ ~Eq(wealth_path(1)[2], One)
    /\ ~Eq(wealth_path(1)[3], wealth_path(1)[2])
    /\ path_ret.error = "none"
    /\ Len(path_ret.ret.portfolio_values) = 3
    /\ ~Eq(path_ret.ret.portfolio_values[3], One)

\* The market with drift 0, volatility 0 and rate 0.
ZeroMarket ==
    /\ market_model.stock_mean = Zero
    /\ market_model.stock_volatility = Zero
    /\ market_model.ir = Zero

\* Both price rows of the online path and of the batch path are all 1.0.
PricesAllOne ==
    /\ \A k \in 1..Len(prices.data[1]) :
           EEqR(prices.data[1][k], One) /\ Eq(prices.data[2][k], One)
    /\ batch.error = "none" =>
           \A k \in 1..Len(batch.information[1]) :
               EEqR(batch.information[1][k], One) /\ Eq(batch.information[2][k], One)

\* The last entry of a path.
Last(path) == path[Len(path)]

C8_StepTieFavoursStock ==
    \A i \in DOMAIN traders :
        (/\ traders[i].strategist.kind = "MaxWealth"
         /\ fed[i] >= 1
         /\ EEqR(information_at(fed[i])[1], information_at(fed[i])[2])) =>
            Eq(traders[i].strategist.stock_frac, One)

\* C9: MarketSimulator.sample_path fails exactly for the horizons that are
\* not positive or below dt, and returns a path for every horizon >= dt.
C9_SamplePathFailsOnlyBelowDt ==
    batch.error # "no call" =>
        (batch.error # "none" <=>
            (Leq(batch.T_horizon, Zero) \/ Lt(batch.T_horizon, market_model.dt)))

\* C10: a strategy whose fractions are not finite makes the operation
\* fail; Simulator.sample never returns, and the matrix of final
\* portfolio values never holds, a nan or an infinite value.
C10_NoNonFiniteSample ==
    /\ sample_ret.error = "none" =>
           \A i \in 1..Len(sample_ret.values) : IsFinite(sample_ret.values[i])
    /\ \A i \in 1..final_portfolio_values.num_rows :
           \A k \in 1..Len(final_portfolio_values.data[i]) :
               IsFinite(final_portfolio_values.data[i][k])

\* C11: an append_col call whose column's length differs from num_rows
\* fails and leaves the data as it was: every row's length is the number
\* of successful appends, and the rows hold the accepted columns.
C11_FailedAppendKeepsRows ==
    /\ \A i \in 1..expand_array.num_rows :
           /\ Len(expand_array.data[i]) = Len(appended)
           /\ \A k \in 1..Len(appended) : expand_array.data[i][k] = appended[k][i]
    /\ \A k \in 1..Len(appended) : Len(appended[k]) = expand_array.num_rows
    /\ expand_array.is_empty = (Len(appended) = 0)
    /\ (arr_ret # NoCall /\ arr_ret.op = "append_col") =>
           /\ (arr_ret.error = "none") = (Len(arr_ret.value) = expand_array.num_rows)
           /\ arr_ret.error = "none" => appended[Len(appended)] = arr_ret.value

\* A two-row array that accepted two columns and then refused one.
C11_Witness ==
    /\ expand_array.num_rows = 2
    /\ Len(appended) = 2
    /\ arr_ret # NoCall
    /\ arr_ret.op = "append_col"
    /\ arr_ret.error = "AssertionError"

\* C12: last_col fails whenever no column was appended, for every row
\* count (0 and 1 included); after an append it returns the column
\* appended last (for a one-row array its single entry).
C12_LastColFailsWhenEmpty ==
    (arr_ret # NoCall /\ arr_ret.op = "last_col") =>
        IF Len(appended) = 0 THEN arr_ret.error # "none"
        ELSE /\ arr_ret.error = "none"
             /\ arr_ret.value = IF expand_array.num_rows = 1 THEN appended[Len(appended)][1]
                                ELSE appended[Len(appended)]

\* C13: Simulator.sample draws one price path per call and gives that
\* path to every trader's compute_path: what it returns is, for one path
\* of the market, the last portfolio value of each trader on that path,
\* one value per trader in the traders' order.
C13_SampleSharesOnePath ==
    sample_ret.error = "none" =>
        /\ Len(sample_ret.values) = Len(traders)
        /\ \E T_horizon \in SimHorizons(market_model.dt) :
               \E zs \in ZSeqs(num_points_of(market_model.dt, T_horizon)) :
                   /\ model_sample_error(market_model, T_horizon) = "none"
                   /\ \E path \in {market_sample_path(market_model, T_horizon, zs)} :
                          \A i \in 1..Len(traders) :
                              sample_ret.values[i] =
                                  Last(trader_compute_path(
                                           traders[i].strategist, market_model.dt,
                                           path.information,
                                           path.secret_information).portfolio_values)

\* A sample of two traders whose final portfolio values differ.
C13_Witness ==
    /\ sample_ret.error = "none"
    /\ Len(traders) = 2
    /\ IsFinite(sample_ret.values[1])
    /\ IsFinite(sample_ret.values[2])
    /\ sample_ret.values[1] # sample_ret.values[2]

\* C14: every simulate(T_horizon, carlo_iterations) call, the first and
\* the later ones, reports the statistics of a matrix of one row per
\* trader and exactly carlo_iterations columns.
C14_SimulateReducesItsOwnSamples ==
    (report # NoCall /\ model_sample_error(market_model, report.T_horizon) = "none") =>
        /\ report.error = "none"
        /\ report.rows = Len(traders)
        /\ report.N = report.carlo_iterations

\* The strategies that are not oracles.
NonOracle(s) == s.kind \in {"Constant", "MaxWealth"}

\* C15: the secret information does not reach the Constant and MaxWealth
\* strategies: every Trader.step and every Trader.compute_path of such a
\* trader leaves the same fraction, positions and portfolio values as the
\* same call with any other stock mean and volatility as secret
\* information and the same observable information.
C15_SecretDoesNotInterfere ==
    [][\A i \in DOMAIN traders :
           NonOracle(traders[i].strategist) =>
               \A mean \in StockMeans, vol \in StockVolatilities :
                   /\ fed'[i] = fed[i] + 1 =>
                          traders'[i] = trader_step(traders[i], market_model.dt,
                                                    information_at(fed[i] + 1),
                                                    <<mean, vol>>)
                   /\ (path_ret' # path_ret /\ path_ret'.error = "none"
                           /\ path_ret'.trader = i) =>
                          path_ret'.ret =
                              trader_compute_path(
                                  traders[i].strategist, market_model.dt,
                                  batch.information,
                                  <<Fill(Len(batch.secret_information[1]), mean),
                                    Fill(Len(batch.secret_information[1]), vol)>>)]_vars

\* A MaxWealth trader stepped twice in a market with a drift and a
\* volatility, and its compute_path on a path of that market.
C15_Witness ==
    /\ traders[1].strategist.kind = "MaxWealth"
    /\ market_model.stock_mean = One
    /\ market_model.stock_volatility = One
    /\ fed[1] = 2
    /\ path_ret.error = "none"
    /\ Len(path_ret.ret.portfolio_values) = 3

\* x < y for two money market prices c*exp(e) with y positive:
\* x.c / y.c < exp(y.e - x.e).
ELt(x, y) == ~RGeqE(Div(x.c, y.c), ENorm(One, Sub(y.e, x.e)))

\* Both prices are 1 at tick 0 of the online path and of the batch path.
StartAtOne ==
    /\ EEqR(prices.data[1][1], One)
    /\ Eq(prices.data[2][1], One)
    /\ batch.error = "none" =>
           EEqR(batch.information[1][1], One) /\ Eq(batch.information[2][1], One)

\* The money market prices of the online path and of the batch path are
\* strictly increasing from tick to tick.
MoneyMarketStrictlyIncreasing ==
    /\ \A k \in 1..(Len(prices.data[1]) - 1) :
           ELt(prices.data[1][k], prices.data[1][k + 1])
    /\ batch.error = "none" =>
           \A k \in 1..(Len(batch.information[1]) - 1) :
               ELt(batch.information[1][k], batch.information[1][k + 1])

\* The money market prices of the online path and of the batch path are
\* the same at every tick.
MoneyMarketConstant ==
    /\ \A k \in 1..(Len(prices.data[1]) - 1) :
           EEq(prices.data[1][k], prices.data[1][k + 1])
    /\ batch.error = "none" =>
           \A k \in 1..(Len(batch.information[1]) - 1) :
               EEq(batch.information[1][k], batch.information[1][k + 1])

\* C16 as stated: both prices are 1 at tick 0, and whenever the interest
\* rate is non-negative, 0 included, the money market price is strictly
\* increasing from tick to tick.
C16_MoneyMarketIncreasesFromRateZero ==
    /\ StartAtOne
    /\ Geq(market_model.ir, Zero) => MoneyMarketStrictlyIncreasing

\* C16 amended: both prices are 1 at tick 0; the money market price is
\* strictly increasing when the interest rate is positive and constant
\* when the interest rate is 0.
C16_MoneyMarketIncreasesFromPositiveRate ==
    /\ StartAtOne
    /\ Gt(market_model.ir, Zero) => MoneyMarketStrictlyIncreasing
    /\ market_model.ir = Zero => MoneyMarketConstant

\* Two steps of a market with a positive interest rate, and a two-tick
\* path sampled from it.
C16_Witness ==
    /\ market_model.ir = One
    /\ Len(prices.data[1]) = 3
    /\ batch.error = "none"
    /\ Len(batch.information[1]) = 3

\* The horizon of the last sample_path call is K ticks long, K a whole
\* number not below least.
HorizonIsTicks(least) ==
    /\ batch # NoCall
    /\ Div(batch.T_horizon, market_model.dt)[2] = 1
    /\ Div(batch.T_horizon, market_model.dt)[1] >= least

\* The K of such a horizon.
HorizonTicks == Div(batch.T_horizon, market_model.dt)[1]

\* The number of columns ConstantMarketModel.sample_path returns for the
\* horizon of the last sample_path call.
ModelColumns == Len(model_sample_path(market_model, batch.T_horizon).params[1])

RECURSIVE steps_alone_prices(_)
steps_alone_prices(zs) ==
    IF Len(zs) = 0 THEN market_reset
    ELSE Let(steps_alone_prices(Front(zs)),
             LAMBDA before :
                 append_col(before, market_step_col(market_model, before, zs[Len(zs)])))

\* Trader i after its reset and its first k steps on the market's path,
\* no other call in between; a step that raised was the last.
RECURSIVE steps_alone_trader(_, _)
steps_alone_trader(i, k) ==
    IF k = 0 THEN trader_reset(traders[i].strategist)
    ELSE Let(steps_alone_trader(i, k - 1),
             LAMBDA before :
                 trader_step(before, market_model.dt,
                             information_at(k), secret_information_at(k)))

\* The stored paths are those of the steps alone.
StoredPathsOfStepsAlone ==
    /\ prices = steps_alone_prices(draws)
    /\ \A i \in DOMAIN traders : traders[i] = steps_alone_trader(i, fed[i])

\* A sample_path or compute_path call returned in this step.
BatchCall == batch' # batch \/ path_ret' # path_ret

\* C18: the batch operations leave the online state as it is: a
\* sample_path call does not change the market's stored prices, and a
\* compute_path call (Simulator.sample makes one per trader after its
\* sample_path call) changes no trader's positions, portfolio values,
\* last_stock_price or strategist, nor the matrix of final portfolio
\* values; so the stored paths are always those of the steps alone.
C18_BatchCallsLeaveOnlineState ==
    /\ []StoredPathsOfStepsAlone
    /\ [][BatchCall =>
              UNCHANGED <<prices, draws, traders, fed, final_portfolio_values>>]_vars

\* A MaxWealth trader stepped twice, after which a path was sampled and
\* the trader's compute_path called on it.
C18_Witness ==
    /\ traders[1].strategist.kind = "MaxWealth"
    /\ fed[1] = 2
    /\ path_ret.error = "none"
    /\ path_ret.trader = 1
    /\ Len(path_ret.ret.portfolio_values) = 3

====
